---- MODULE Spec2Model ----
(***************************************************************************)
(* A state-machine model of src/microscope.py: the Microscope object, its  *)
(* assembly operations (add_lens, add_camera), the derived system scalars  *)
(* (calculate_system_specs), the reverse ray trace, the dipole-ensemble    *)
(* loop of calculate_PSF, and the noise/MTF stage (make_MTF, analyze).     *)
(*                                                                         *)
(* Conventions.                                                            *)
(*  - A Python attribute that may be missing is a sequence: <<>> when the  *)
(*    attribute does not exist, <<v>> when it holds v.                     *)
(*  - Real numbers that the claims compute with are exact rationals        *)
(*    <<n, d>> in lowest terms with d > 0.                                  *)
(*  - Lens tilts (rot) and alpha are in whole degrees.                     *)
(*  - `raised` is the exception that ended the last call, "none" when the  *)
(*    call returned normally.                                              *)
(***************************************************************************)
EXTENDS Integers, Sequences, FiniteSets, TLC

VARIABLES
    lenses,        \* self.lenses: sequence of Lens records, index 1 is Python index 0
    camera,        \* self.camera (optional)
    mag,           \* self.mag (optional rational)
    alpha,         \* self.alpha (optional, degrees)
    axial_mag,     \* self.axial_mag (optional rational)
    z_voxel_size,  \* self.z_voxel_size (optional rational)
    scaling,       \* self.scaling (optional rational)
    FoV,           \* self.FoV (optional rational)
    raised,        \* exception that ended the last call, or "none"
    call,          \* the last call: its name, its arguments and the state it started from
    OTF_res,       \* self.OTF_res (optional)
    SNR,           \* self.SNR (optional)
    eff_PSF,       \* self.eff_PSF (optional volume)
    PSF_poisson,   \* self.PSF_poisson (optional volume)
    PSF_readout,   \* self.PSF_readout (optional volume)
    MTF_noiseless, \* self.MTF_noiseless (optional volume of squared magnitudes)
    MTF_poisson,   \* self.MTF_poisson (optional volume of squared magnitudes)
    MTF_readout,   \* self.MTF_readout (optional volume of squared magnitudes)
    base_freq,     \* self.base_freq (optional rational)
    XYZ_res,       \* self.XYZ_res (optional triple of rationals; <<1, 0>> is inf)
    runs,          \* the last two make_MTF runs that returned, oldest first
    pixel,         \* the pixel <<row, column>> of the res x res grid that is followed
    angles,        \* per lens (physical order): its angle maps at `pixel`
    jones_mat,     \* self.jones_mat at `pixel`: the matrices pushed, in order
    transform,     \* self.transform at `pixel`: "unset", "finite" or "nan"
    apodization,   \* self.apodization at `pixel`: "unset", "finite" or "nan"
    steps,         \* the reverse steps of the last trace: lens, mode, case, dir
    anisotropy,      \* system.anisotropy
    ensamble,        \* system.ensamble, the number of dipoles
    GUI,             \* the progress sink handed to the last calculate_PSF
    ls_PSF,          \* "unset" or "set"
    PSF,             \* Unset, or Some(the number of accumulated dipoles)
    tti,             \* "unset" or "set"
    FWHM,            \* "unset" or "set"
    events           \* what the last calculate_PSF did, in order

cfgVars == <<lenses, camera, mag, alpha, axial_mag, z_voxel_size, scaling, FoV>>

mtfVars == <<OTF_res, SNR, eff_PSF, PSF_poisson, PSF_readout, MTF_noiseless,
             MTF_poisson, MTF_readout, base_freq, XYZ_res, runs>>

traceVars == <<pixel, angles, jones_mat, transform, apodization, steps>>

psfVars == <<anisotropy, ensamble, GUI, ls_PSF, PSF, tti, FWHM, events>>

vars == <<lenses, camera, mag, alpha, axial_mag, z_voxel_size, scaling, FoV,
          raised, call, mtfVars, traceVars, psfVars>>

----------------------------------------------------------------------------
(* Bounds of the model *)

\* Longest lens list the assembly operations build.
MaxLenses == 3

----------------------------------------------------------------------------
(* Optional attributes *)

Unset == <<>>

Some(v) == <<v>>

IsSet(a) == a # <<>>

Val(a) == a[1]

----------------------------------------------------------------------------
(* Exact rational arithmetic (Python floats, without rounding) *)

RECURSIVE Gcd(_, _)
Gcd(a, b) == IF b = 0 THEN a ELSE Gcd(b, a % b)

Abs(x) == IF x < 0 THEN -x ELSE x

\* The rational n/d in lowest terms, d > 0 after normalisation.
R(n, d) ==
    LET s == IF d < 0 THEN -1 ELSE 1
        g == Gcd(Abs(n), Abs(d))
    IN  IF g = 0 THEN <<0, 0>> ELSE <<(s * n) \div g, (s * d) \div g>>

\* Products cancel common factors before multiplying, so that intermediate
\* values stay small.
RMul(a, b) ==
    LET g1 == Gcd(Abs(a[1]), Abs(b[2]))
        g2 == Gcd(Abs(b[1]), Abs(a[2]))
        h1 == IF g1 = 0 THEN 1 ELSE g1
        h2 == IF g2 = 0 THEN 1 ELSE g2
    IN  R((a[1] \div h1) * (b[1] \div h2), (a[2] \div h2) * (b[2] \div h1))

\* a / b; a division by zero yields <<1, 0>> (numpy's inf) or <<0, 0>> (nan).
RDiv(a, b) == RMul(a, <<b[2], b[1]>>)

RInt(k) == <<k, 1>>

RAdd(a, b) == R(a[1] * b[2] + b[1] * a[2], a[2] * b[2])

RLeq(a, b) == a[1] * b[2] <= b[1] * a[2]

RLess(a, b) == a[1] * b[2] < b[1] * a[2]

RIsZero(a) == a[1] = 0

----------------------------------------------------------------------------
(* Lens and Camera objects *)

\* Lens.__init__
Lens(NA, RI, rot) == [NA |-> NA, RI |-> RI, rot |-> rot]

\* Camera.__init__
Camera(res, vox, offset, RMS) ==
    [res |-> res, vox |-> vox, offset |-> offset, RMS |-> RMS]

----------------------------------------------------------------------------
(* Python values passed as `pos` to add_lens and as `res` to add_camera.   *)
(* t is the Python type; v is the value: the integer itself for "int",     *)
(* 0/1 for the bools False/True, and twice the value for "float" (so 3 is  *)
(* 1.5 and 0 is 0.0).                                                      *)

PyVal(t, v) == [t |-> t, v |-> v]

PyFalse == PyVal("bool", 0)

NoArg == PyVal("none", 0)

\* Python's `x == False`: numeric comparison, True for False, 0 and 0.0.
EqFalse(x) == x.v = 0

\* Python's `type(x) is int` (bool is a subclass, not int itself).
TypeIsInt(x) == x.t = "int"

\* list.insert(i, x): a negative i counts from the end, and the index is
\* clamped into 0..len.
ListInsert(s, i, x) ==
    LET n  == Len(s)
        i0 == IF i < 0 THEN i + n ELSE i
        k  == IF i0 < 0 THEN 0 ELSE IF i0 > n THEN n ELSE i0
    IN  SubSeq(s, 1, k) \o <<x>> \o SubSeq(s, k + 1, n)

\* Microscope.add_lens: the lens list it leaves and the exception it raises.
add_lens(ls, lens, pos) ==
    IF EqFalse(pos)
    THEN [lenses |-> Append(ls, lens), raised |-> "none"]
    ELSE IF ~TypeIsInt(pos)
    THEN [lenses |-> ls, raised |-> "TypeError"]
    ELSE IF Len(ls) < pos.v
    THEN [lenses |-> ls, raised |-> "ValueError"]
    ELSE [lenses |-> ListInsert(ls, pos.v, lens), raised |-> "none"]

\* Microscope.add_camera: the camera attribute it leaves and the exception.
add_camera(cam, res, vox, offset, RMS) ==
    IF ~TypeIsInt(res)
    THEN [camera |-> cam, raised |-> "TypeError"]
    ELSE [camera |-> Some(Camera(res.v, vox, offset, RMS)), raised |-> "none"]

----------------------------------------------------------------------------
(* calculate_system_specs *)

\* self.lam_em: the emission wavelength of the example system, 507e-9 m.
lam_em == R(507, 1000000000)

\* pi/2 in degrees.
HalfPi == 90

RECURSIVE SumRot(_)
SumRot(ls) == IF ls = <<>> THEN 0 ELSE Head(ls).rot + SumRot(Tail(ls))

\* MagStep with the parities exchanged.
MagStepOddMultiplies(m, i, lens) ==
    IF i % 2 = 1 THEN RMul(m, lens.NA) ELSE RDiv(m, lens.NA)

\* One pass of the loop body: Python index i (0-based) multiplies on even i
\* and divides on odd i.
MagStep(m, i, lens) ==
    IF i % 2 = 0 THEN RMul(m, lens.NA) ELSE RDiv(m, lens.NA)

\* The loop over enumerate(self.lenses), from Python index i, starting at m.
RECURSIVE MagLoop(_, _, _)
MagLoop(m, i, ls) ==
    IF ls = <<>> THEN m ELSE MagLoop(MagStep(m, i, Head(ls)), i + 1, Tail(ls))

AxialMag(m, ls) ==
    RDiv(RMul(RMul(m, m), ls[Len(ls)].RI), ls[1].RI)

\* The attributes calculate_system_specs leaves, statement by statement: an
\* exception keeps whatever the statements before it assigned.
calculate_system_specs(ls, cam, old) ==
    LET m  == MagLoop(RInt(1), 0, ls)
        s1 == [old EXCEPT !.mag = Some(m), !.alpha = Some(HalfPi - SumRot(ls))]
    IN  IF ls = <<>>
        THEN [s1 EXCEPT !.raised = "IndexError"]
        ELSE
        LET am == AxialMag(m, ls)
            s2 == [s1 EXCEPT !.axial_mag = Some(am)]
        IN  IF ~IsSet(cam)
            THEN [s2 EXCEPT !.raised = "AttributeError"]
            ELSE
            LET c  == Val(cam)
                s3 == [s2 EXCEPT
                         !.z_voxel_size = Some(RMul(RDiv(c.vox, m), am)),
                         !.scaling = Some(RDiv(lam_em,
                                               RMul(RMul(RInt(2), c.vox), ls[Len(ls)].NA))),
                         !.FoV = Some(RDiv(RMul(c.vox, RInt(c.res)), m))]
            IN  [s3 EXCEPT !.raised = "none"]

----------------------------------------------------------------------------
(* Inputs of the assembly operations *)

LensChoices ==
    { Lens(RInt(1), RInt(1), 0),
      Lens(R(1, 2), R(3, 2), 40) }

PosChoices ==
    {PyFalse, PyVal("bool", 1), PyVal("float", 0), PyVal("float", 3)}
    \cup {PyVal("int", p) : p \in -2 .. MaxLenses + 1}

ResChoices == {PyVal("int", 2), PyVal("int", 3), PyVal("float", 4)}

\* Pixel pitches of 1e-6 m and 2e-6 m.
VoxChoices == {R(1, 1000000), R(1, 500000)}

NoLens == Lens(RInt(0), RInt(0), 0)

CallRec(op, lens, pos, res, before, cameraBefore) ==
    [op |-> op, lens |-> lens, pos |-> pos, res |-> res,
     before |-> before, cameraBefore |-> cameraBefore]

----------------------------------------------------------------------------
(* The assembly state machine *)

\* No MTF attribute exists yet.
MtfIdle ==
    /\ OTF_res = Unset
    /\ SNR = Unset
    /\ eff_PSF = Unset
    /\ PSF_poisson = Unset
    /\ PSF_readout = Unset
    /\ MTF_noiseless = Unset
    /\ MTF_poisson = Unset
    /\ MTF_readout = Unset
    /\ base_freq = Unset
    /\ XYZ_res = Unset
    /\ runs = <<>>

\* No trace has run yet.
TraceIdle ==
    /\ pixel = <<0, 0>>
    /\ angles = <<>>
    /\ jones_mat = <<>>
    /\ transform = "unset"
    /\ apodization = "unset"
    /\ steps = <<>>

\* No simulation parameter is assigned and calculate_PSF has not run.
PsfIdle ==
    /\ anisotropy = Unset
    /\ ensamble = Unset
    /\ GUI = Unset
    /\ ls_PSF = "unset"
    /\ PSF = Unset
    /\ tti = "unset"
    /\ FWHM = "unset"
    /\ events = <<>>

\* Microscope.__init__
Init ==
    /\ MtfIdle
    /\ TraceIdle
    /\ PsfIdle
    /\ lenses = <<>>
    /\ camera = Unset
    /\ mag = Unset
    /\ alpha = Unset
    /\ axial_mag = Unset
    /\ z_voxel_size = Unset
    /\ scaling = Unset
    /\ FoV = Unset
    /\ raised = "none"
    /\ call = CallRec("init", NoLens, NoArg, NoArg, <<>>, Unset)

AddLens ==
    \E lens \in LensChoices, pos \in PosChoices :
        /\ Len(lenses) < MaxLenses
        /\ LET r == add_lens(lenses, lens, pos)
           IN  /\ lenses' = r.lenses
               /\ raised' = r.raised
        /\ call' = CallRec("add_lens", lens, pos, NoArg, lenses, camera)
        /\ UNCHANGED <<camera, mag, alpha, axial_mag, z_voxel_size, scaling, FoV, mtfVars, traceVars, psfVars>>

AddCamera ==
    \E res \in ResChoices, vox \in VoxChoices :
        /\ LET r == add_camera(camera, res, vox, 100, R(7, 5))
           IN  /\ camera' = r.camera
               /\ raised' = r.raised
        /\ call' = CallRec("add_camera", NoLens, NoArg, res, lenses, camera)
        /\ UNCHANGED <<lenses, mag, alpha, axial_mag, z_voxel_size, scaling, FoV, mtfVars, traceVars, psfVars>>

CalculateSystemSpecs ==
    LET old == [mag |-> mag, alpha |-> alpha, axial_mag |-> axial_mag,
                z_voxel_size |-> z_voxel_size, scaling |-> scaling,
                FoV |-> FoV, raised |-> raised]
        r   == calculate_system_specs(lenses, camera, old)
    IN  /\ mag' = r.mag
        /\ alpha' = r.alpha
        /\ axial_mag' = r.axial_mag
        /\ z_voxel_size' = r.z_voxel_size
        /\ scaling' = r.scaling
        /\ FoV' = r.FoV
        /\ raised' = r.raised
        /\ call' = CallRec("calculate_system_specs", NoLens, NoArg, NoArg, lenses, camera)
        /\ UNCHANGED <<lenses, camera, mtfVars, traceVars, psfVars>>

Next == AddLens \/ AddCamera \/ CalculateSystemSpecs

Spec == Init /\ [][Next]_vars

----------------------------------------------------------------------------
(* Claims about the assembly operations and calculate_system_specs *)

\* The list `before` with x placed at Python index p, nothing else moved.
PlacedAt(before, p, x) ==
    SubSeq(before, 1, p) \o <<x>> \o SubSeq(before, p + 1, Len(before))

\* C2: add_lens without pos appends the new lens; with an integer pos p,
\* 0 <= p <= len(lenses), the new lens ends up at index p (p = 0 included),
\* the lenses already present keep their relative order and the list grows
\* by exactly one.
C2_AddLensKeepsRequestedOrder ==
    call.op = "add_lens" =>
        /\ call.pos = PyFalse =>
              /\ raised = "none"
              /\ lenses = Append(call.before, call.lens)
        /\ (call.pos.t = "int" /\ 0 <= call.pos.v /\ call.pos.v <= Len(call.before)) =>
              /\ raised = "none"
              /\ Len(lenses) = Len(call.before) + 1
              /\ lenses = PlacedAt(call.before, call.pos.v, call.lens)

\* A pos argument that was supplied and is not an index of the list:
\* not an int, or an int outside 0..len(lenses).
InvalidPos(pos, before) ==
    /\ pos # PyFalse
    /\ \/ pos.t # "int"
       \/ pos.v < 0
       \/ pos.v > Len(before)

\* C3: add_lens with a pos that is not an integer or lies outside
\* 0..len(lenses) raises and leaves the lens list as it was; add_camera with
\* a non-integer pixel count raises and leaves the camera as it was; no such
\* call modifies the lens list or the camera.
C3_ConfigErrorsRejectedUnchanged ==
    /\ (call.op = "add_lens" /\ InvalidPos(call.pos, call.before)) =>
          /\ raised # "none"
          /\ lenses = call.before
          /\ camera = call.cameraBefore
    /\ (call.op = "add_camera" /\ call.res.t # "int") =>
          /\ raised # "none"
          /\ lenses = call.before
          /\ camera = call.cameraBefore

\* C4: calculate_system_specs fails if and only if the lens list is empty;
\* for every non-empty list it completes and sets mag, alpha, axial_mag,
\* z_voxel_size and scaling, with or without a camera.
C4_SpecsFailOnlyOnEmptyList ==
    call.op = "calculate_system_specs" =>
        /\ (raised # "none") <=> (call.before = <<>>)
        /\ call.before # <<>> =>
              /\ IsSet(mag)
              /\ IsSet(alpha)
              /\ IsSet(axial_mag)
              /\ IsSet(z_voxel_size)
              /\ IsSet(scaling)

\* Product of the NAs of the lenses whose Python index has parity `par`.
RECURSIVE ProdNA(_, _, _)
ProdNA(ls, k, par) ==
    IF k = 0 THEN RInt(1)
    ELSE IF (k - 1) % 2 = par
         THEN RMul(ProdNA(ls, k - 1, par), ls[k].NA)
         ELSE ProdNA(ls, k - 1, par)

\* C5: for every non-empty lens list calculate_system_specs sets mag to
\* (product of NA over even-indexed lenses) / (product of NA over odd-indexed
\* lenses) and axial_mag to mag^2 * RI(last) / RI(first); a single lens gives
\* mag = NA, and two lenses with NA = (1, 1), RI = (1, 1) give mag = 1 and
\* axial_mag = 1.
C5_MagIsAlternatingProduct ==
    (call.op = "calculate_system_specs" /\ lenses # <<>>) =>
        LET n    == Len(lenses)
            want == RDiv(ProdNA(lenses, n, 0), ProdNA(lenses, n, 1))
        IN  /\ mag = Some(want)
            /\ axial_mag = Some(RDiv(RMul(RMul(want, want), lenses[n].RI), lenses[1].RI))
            /\ n = 1 => mag = Some(lenses[1].NA)
            /\ (/\ n = 2
                /\ \A k \in 1 .. 2 : lenses[k].NA = RInt(1) /\ lenses[k].RI = RInt(1)) =>
                  /\ mag = Some(RInt(1))
                  /\ axial_mag = Some(RInt(1))

\* Witness of C5: the specs of a three-lens list whose lenses differ in NA
\* and RI have been calculated.
C5_Witness ==
    /\ call.op = "calculate_system_specs"
    /\ Len(lenses) = 3
    /\ lenses[1] # lenses[2]
    /\ lenses[1].RI # lenses[3].RI
    /\ IsSet(mag)
    /\ IsSet(axial_mag)

----------------------------------------------------------------------------
(* Volumes: cubic 3-D arrays.  A volume is [n |-> edge length, v |-> the   *)
(* values], v a function on the index triples <<i, j, k>>, 0-based, in     *)
(* numpy's axis order.                                                     *)

Cube(n) == (0 .. n - 1) \X (0 .. n - 1) \X (0 .. n - 1)

Vol(n, f) == [n |-> n, v |-> f]

\* np.pad(a, padding): `padding` zeros before and after, on every axis.
Pad(a, padding) ==
    LET m == a.n + 2 * padding
        InOld(p) == \A ax \in 1 .. 3 : p[ax] >= padding /\ p[ax] < padding + a.n
        g(p) == IF InOld(p)
                THEN a.v[<<p[1] - padding, p[2] - padding, p[3] - padding>>]
                ELSE 0
    IN  Vol(m, [p \in Cube(m) |-> g(p)])

\* Python's a[lo:hi] for 0 <= lo: the bounds are clamped to the length.
SliceLen(len, lo, hi) ==
    LET h == IF hi > len THEN len ELSE hi
        l == IF lo > len THEN len ELSE lo
    IN  IF h > l THEN h - l ELSE 0

\* a[lo:hi, lo:hi, lo:hi]
Crop(a, lo, hi) ==
    LET m == SliceLen(a.n, lo, hi)
        g(p) == a.v[<<p[1] + lo, p[2] + lo, p[3] + lo>>]
    IN  Vol(m, [p \in Cube(m) |-> g(p)])

\* np.fft.fftshift on every axis: out[i] = in[(i - n // 2) mod n].
fftshift(a) ==
    LET h == a.n \div 2
        g(p) == a.v[<<(p[1] - h) % a.n, (p[2] - h) % a.n, (p[3] - h) % a.n>>]
    IN  Vol(a.n, [p \in Cube(a.n) |-> g(p)])

(* The discrete Fourier transform, exactly.  For edge lengths 1, 2 and 4   *)
(* the transform of an integer volume lies in Z[i], for edge length 3 in   *)
(* Z[w], w = exp(2 pi i / 3); a value is the pair <<a, b>> = a + b*u with  *)
(* u = i or u = w.  np.fft.fftn uses the kernel exp(-2 pi i k.p / n).      *)

\* exp(-2 pi i m / n) as a pair.
Root(n, m) ==
    LET r == m % n
    IN  IF n = 3
        THEN (IF r = 0 THEN <<1, 0>> ELSE IF r = 1 THEN <<-1, -1>> ELSE <<0, 1>>)
        ELSE LET q == (r * 4) \div n    \* n divides 4: the quarter turns
             IN  IF q = 0 THEN <<1, 0>>
                 ELSE IF q = 1 THEN <<0, -1>>
                 ELSE IF q = 2 THEN <<-1, 0>>
                 ELSE <<0, 1>>

\* |a + b*u|^2
Norm2(n, z) ==
    IF n = 3 THEN z[1] * z[1] - z[1] * z[2] + z[2] * z[2]
    ELSE z[1] * z[1] + z[2] * z[2]

PairAdd(x, y) == <<x[1] + y[1], x[2] + y[2]>>

\* a[p] * exp(-2 pi i k.p / n)
DftTerm(a, k, p) ==
    LET x == a.v[p]
        u == Root(a.n, k[1] * p[1] + k[2] * p[2] + k[3] * p[3])
    IN  <<x * u[1], x * u[2]>>

\* The terms of the voxels <<i, j, l>>, ..., <<i, j, n - 1>>.
RECURSIVE DftRow(_, _, _, _, _)
DftRow(a, k, i, j, l) ==
    IF l = a.n THEN <<0, 0>>
    ELSE PairAdd(DftTerm(a, k, <<i, j, l>>), DftRow(a, k, i, j, l + 1))

\* The rows <<i, j, .>>, ..., <<i, n - 1, .>>.
RECURSIVE DftPlane(_, _, _, _)
DftPlane(a, k, i, j) ==
    IF j = a.n THEN <<0, 0>>
    ELSE PairAdd(DftRow(a, k, i, j, 0), DftPlane(a, k, i, j + 1))

\* The planes <<i, ., .>>, ..., <<n - 1, ., .>>.
RECURSIVE DftFrom(_, _, _)
DftFrom(a, k, i) ==
    IF i = a.n THEN <<0, 0>>
    ELSE PairAdd(DftPlane(a, k, i, 0), DftFrom(a, k, i + 1))

\* Sum over all voxels p of a[p] * exp(-2 pi i k.p / n), axis by axis.
DftSum(a, k) == DftFrom(a, k, 0)

\* |np.fft.fftn(a)|^2, voxel by voxel.
AbsFftn2(a) ==
    LET g(k) == Norm2(a.n, DftSum(a, k))
    IN  Vol(a.n, [p \in Cube(a.n) |-> g(p)])

\* np.abs(np.fft.fftshift(np.fft.fftn(np.fft.fftshift(a)))), each magnitude
\* represented by its square (the magnitudes are square roots of integers).
MTFOf(a) == fftshift(AbsFftn2(fftshift(a)))

----------------------------------------------------------------------------
(* make_MTF *)

\* Largest OTF_res the MTF stage is run with.
MaxOTFRes == 3

Max2(x, y) == IF x > y THEN x ELSE y

RECURSIVE MaxRow(_, _, _, _)
MaxRow(a, i, j, l) ==
    IF l = a.n - 1 THEN a.v[<<i, j, l>>]
    ELSE Max2(a.v[<<i, j, l>>], MaxRow(a, i, j, l + 1))

RECURSIVE MaxPlane(_, _, _)
MaxPlane(a, i, j) ==
    IF j = a.n - 1 THEN MaxRow(a, i, j, 0)
    ELSE Max2(MaxRow(a, i, j, 0), MaxPlane(a, i, j + 1))

RECURSIVE MaxFrom(_, _)
MaxFrom(a, i) ==
    IF i = a.n - 1 THEN MaxPlane(a, i, 0)
    ELSE Max2(MaxPlane(a, i, 0), MaxFrom(a, i + 1))

\* Largest value of a volume (np.max), axis by axis.
VolMax(a) == MaxFrom(a, 0)

\* other_functions.add_noise(img, SNR**2, offset, RMS): the pair
\* <<noise-free volume, noisy volume>>.  The shot-noise signal is img scaled
\* so that its brightest voxel is SNR**2; e is the noise realisation (the
\* deviation of each voxel from that signal plus the offset).
add_noise(img, SNR2, offset, RMS, e) ==
    LET top == VolMax(img)
        g(p) == (img.v[p] * SNR2) \div top + offset + e[p]
    IN  <<img, Vol(img.n, [p \in Cube(img.n) |-> g(p)])>>

\* Noise realisations of a volume with edge n: no deviation, or one count
\* more in the first voxel.
NoiseChoices(n) ==
    { [p \in Cube(n) |-> 0],
      [p \in Cube(n) |-> IF p = <<0, 0, 0>> THEN 1 ELSE 0] }

\* The volume whose transform make_MTF stores as MTF_noiseless, taken from
\* the noisy volume instead.
NoiselessSourceFromNoisy(product, poisson) == poisson

\* The volume whose transform make_MTF stores as MTF_noiseless: `product`
\* as it is bound when line 383 runs.
NoiselessSource(product, poisson) == product

\* Microscope.make_MTF, statement by statement; `old` holds the attributes
\* it may assign, e is the noise realisation add_noise draws.
make_MTF(old, otf, snr, cam, eff, m, e) ==
    IF ~IsSet(otf) \/ ~IsSet(cam) \/ ~IsSet(eff)
    THEN [old EXCEPT !.raised = "AttributeError"]
    ELSE
    LET c       == Val(cam)
        padding == (Val(otf) - c.res) \div 2
    IN  IF padding < 0
        THEN [old EXCEPT !.raised = "ValueError"]
        ELSE IF ~IsSet(snr)
        THEN [old EXCEPT !.raised = "AttributeError"]
        ELSE IF Val(snr) = 0
        THEN \* `poisson` was never bound
             [old EXCEPT !.raised = "UnboundLocalError"]
        ELSE
        LET padded  == Pad(Val(eff), padding)
            pair    == add_noise(padded, Val(snr) * Val(snr), c.offset, c.RMS, e)
            product == pair[1]
            poisson == pair[2]
            s1 == [old EXCEPT
                     !.PSF_poisson = Some(Crop(poisson, padding, padding + c.res)),
                     !.PSF_readout = Some(Crop(product, padding, padding + c.res)),
                     !.MTF_noiseless = Some(MTFOf(NoiselessSource(product, poisson))),
                     !.MTF_poisson = Some(MTFOf(poisson)),
                     !.MTF_readout = Some(MTFOf(product))]
        IN  IF ~IsSet(m)
            THEN [s1 EXCEPT !.raised = "AttributeError"]
            ELSE [s1 EXCEPT
                    !.base_freq = Some(RDiv(RInt(1),
                                            RMul(RInt(product.n), RDiv(c.vox, Val(m))))),
                    !.raised = "none"]

----------------------------------------------------------------------------
(* analyze *)

\* 1e9, the nanometres in a metre.
NmPerM == 1000000000

\* The voxel at distance j from the centre N along `axis`, the other two
\* indices at N: poisson[N, N:, N] is axis 2, poisson[N:, N, N] axis 1,
\* poisson[N, N, N:] axis 3.
AxisVoxel(N, axis, j) ==
    IF axis = 1 THEN <<N + j, N, N>>
    ELSE IF axis = 2 THEN <<N, N + j, N>>
    ELSE <<N, N, N + j>>

\* MTF - sqrt(MTF.max()) <= 0 at voxel p.  With w the stored square of the
\* magnitude and top the largest stored square: sqrt(w) <= sqrt(sqrt(top)),
\* that is w * w <= top, computed as w <= top \div w.
AtOrBelowFloor(a, top, p) ==
    LET w == a.v[p]
    IN  w = 0 \/ w <= top \div w

\* np.where(profile <= 0)[0]: the indices, from the centre outward.
CutIndices(a, axis) ==
    LET N   == a.n \div 2
        top == VolMax(a)
    IN  {j \in 0 .. a.n - N - 1 : AtOrBelowFloor(a, top, AxisVoxel(N, axis, j))}

SetMin(S) == CHOOSE x \in S : \A y \in S : x <= y

\* 1 / (base_freq * cut / 1e9), numpy arithmetic: dividing by zero gives inf.
ResolutionAt(bf, cut) ==
    RDiv(RInt(1), RDiv(RMul(bf, RInt(cut)), RInt(NmPerM)))

\* Microscope.analyze: XYZ_res and the exception.  The axes are taken in the
\* order X (axis 2), Y (axis 1), Z (axis 3); XYZ_res is assigned last.
analyze(old, mtf, bf) ==
    IF ~IsSet(mtf)
    THEN [XYZ_res |-> old, raised |-> "AttributeError"]
    ELSE
    LET a  == Val(mtf)
        cx == CutIndices(a, 2)
        cy == CutIndices(a, 1)
        cz == CutIndices(a, 3)
    IN  IF cx = {} THEN [XYZ_res |-> old, raised |-> "IndexError"]
        ELSE IF ~IsSet(bf) THEN [XYZ_res |-> old, raised |-> "AttributeError"]
        ELSE IF cy = {} \/ cz = {} THEN [XYZ_res |-> old, raised |-> "IndexError"]
        ELSE [XYZ_res |-> Some(<<ResolutionAt(Val(bf), SetMin(cx)),
                                 ResolutionAt(Val(bf), SetMin(cy)),
                                 ResolutionAt(Val(bf), SetMin(cz))>>),
              raised |-> "none"]

----------------------------------------------------------------------------
(* The MTF stage as a state machine: a microscope whose specs have been    *)
(* calculated and whose effective PSF has been computed, on which SNR is   *)
(* assigned and make_MTF and analyze are called.                           *)

MtfLensLists ==
    { <<Lens(RInt(1), RInt(1), 0), Lens(R(1, 2), R(3, 2), 40)>> }

MtfCameras ==
    { Camera(2, R(1, 500000), 100, R(7, 5)),
      Camera(3, R(1, 1000000), 0, RInt(1)) }

\* Effective PSFs of edge res, peak 1 at the centre voxel: the centre voxel
\* alone, or the centre voxel and its neighbour along the second axis.
EffChoices(res) ==
    LET c == res \div 2
    IN  { Vol(res, [p \in Cube(res) |-> IF p = <<c, c, c>> THEN 1 ELSE 0]),
          Vol(res, [p \in Cube(res) |->
                      IF p \in {<<c, c, c>>, <<c, c - 1, c>>} THEN 1 ELSE 0]) }

SNRChoices == {0, 1, 2}

NoSpecs ==
    [mag |-> Unset, alpha |-> Unset, axial_mag |-> Unset, z_voxel_size |-> Unset,
     scaling |-> Unset, FoV |-> Unset, raised |-> "none"]

InitMTF ==
    /\ lenses \in MtfLensLists
    /\ camera \in {Some(c) : c \in MtfCameras}
    /\ LET r == calculate_system_specs(lenses, camera, NoSpecs)
       IN  /\ mag = r.mag
           /\ alpha = r.alpha
           /\ axial_mag = r.axial_mag
           /\ z_voxel_size = r.z_voxel_size
           /\ scaling = r.scaling
           /\ FoV = r.FoV
    /\ raised = "none"
    /\ call = CallRec("calculate_system_specs", NoLens, NoArg, NoArg, lenses, camera)
    /\ OTF_res \in {Some(n) : n \in Val(camera).res .. MaxOTFRes}
    /\ SNR \in {Some(x) : x \in SNRChoices}
    /\ eff_PSF \in {Some(a) : a \in EffChoices(Val(camera).res)}
    /\ PSF_poisson = Unset
    /\ PSF_readout = Unset
    /\ MTF_noiseless = Unset
    /\ MTF_poisson = Unset
    /\ MTF_readout = Unset
    /\ base_freq = Unset
    /\ XYZ_res = Unset
    /\ runs = <<>>
    /\ TraceIdle
    /\ PsfIdle

\* system.SNR = x
SetSNR ==
    \E x \in SNRChoices :
        /\ SNR # Some(x)
        /\ SNR' = Some(x)
        /\ raised' = "none"
        /\ call' = CallRec("set_SNR", NoLens, NoArg, NoArg, lenses, camera)
        /\ UNCHANGED <<cfgVars, OTF_res, eff_PSF, PSF_poisson, PSF_readout,
                       MTF_noiseless, MTF_poisson, MTF_readout, base_freq,
                       XYZ_res, runs, traceVars, psfVars>>

\* The edge of the padded volume make_MTF builds.
PaddedEdge == Val(camera).res + 2 * ((Val(OTF_res) - Val(camera).res) \div 2)

LastTwo(s) == IF Len(s) > 2 THEN SubSeq(s, Len(s) - 1, Len(s)) ELSE s

MakeMTF ==
    \E e \in NoiseChoices(PaddedEdge) :
        LET old == [PSF_poisson |-> PSF_poisson, PSF_readout |-> PSF_readout,
                    MTF_noiseless |-> MTF_noiseless, MTF_poisson |-> MTF_poisson,
                    MTF_readout |-> MTF_readout, base_freq |-> base_freq,
                    raised |-> raised]
            r   == make_MTF(old, OTF_res, SNR, camera, eff_PSF, mag, e)
        IN  /\ PSF_poisson' = r.PSF_poisson
            /\ PSF_readout' = r.PSF_readout
            /\ MTF_noiseless' = r.MTF_noiseless
            /\ MTF_poisson' = r.MTF_poisson
            /\ MTF_readout' = r.MTF_readout
            /\ base_freq' = r.base_freq
            /\ raised' = r.raised
            /\ runs' = IF r.raised = "none"
                       THEN LastTwo(Append(runs, [SNR |-> Val(SNR),
                                                  MTF_noiseless |-> Val(r.MTF_noiseless)]))
                       ELSE runs
            /\ call' = CallRec("make_MTF", NoLens, NoArg, NoArg, lenses, camera)
            /\ UNCHANGED <<cfgVars, OTF_res, SNR, eff_PSF, XYZ_res, traceVars, psfVars>>

Analyze ==
    LET r == analyze(XYZ_res, MTF_poisson, base_freq)
    IN  /\ XYZ_res' = r.XYZ_res
        /\ raised' = r.raised
        /\ call' = CallRec("analyze", NoLens, NoArg, NoArg, lenses, camera)
        /\ UNCHANGED <<cfgVars, OTF_res, SNR, eff_PSF, PSF_poisson, PSF_readout,
                       MTF_noiseless, MTF_poisson, MTF_readout, base_freq, runs,
                       traceVars, psfVars>>

NextMTF == SetSNR \/ MakeMTF \/ Analyze

SpecMTF == InitMTF /\ [][NextMTF]_vars

----------------------------------------------------------------------------
(* Claims about make_MTF and analyze *)

\* The zero-padded effective PSF make_MTF starts from.
PaddedEff ==
    Pad(Val(eff_PSF), (Val(OTF_res) - Val(camera).res) \div 2)

\* C1: make_MTF called with SNR == 0 skips noise injection and completes
\* normally: it populates PSF_poisson, PSF_readout, MTF_noiseless,
\* MTF_poisson, MTF_readout and base_freq from the un-noised zero-padded
\* effective PSF, without raising, for every camera.res and
\* OTF_res >= camera.res.
C1_ZeroSNRCompletes ==
    (/\ call.op = "make_MTF"
     /\ SNR = Some(0)
     /\ Val(OTF_res) >= Val(camera).res) =>
        LET padding == (Val(OTF_res) - Val(camera).res) \div 2
            crop    == Crop(PaddedEff, padding, padding + Val(camera).res)
        IN  /\ raised = "none"
            /\ PSF_poisson = Some(crop)
            /\ PSF_readout = Some(crop)
            /\ MTF_noiseless = Some(MTFOf(PaddedEff))
            /\ MTF_poisson = Some(MTFOf(PaddedEff))
            /\ MTF_readout = Some(MTFOf(PaddedEff))
            /\ IsSet(base_freq)

\* A rational that is strictly positive and finite.
PositiveFinite(x) == x[1] > 0 /\ x[2] > 0

\* C6: in analyze, whenever the noise-floor-subtracted MTF_poisson profile
\* of each axis, from the centre index outward, contains an index with value
\* <= 0, the resolution reported for every axis is strictly positive and
\* finite, also when the value at the centre index itself is <= 0.
C6_ResolutionPositiveFinite ==
    (/\ call.op = "analyze"
     /\ IsSet(MTF_poisson)
     /\ IsSet(base_freq)
     /\ \A axis \in 1 .. 3 : CutIndices(Val(MTF_poisson), axis) # {}) =>
        /\ raised = "none"
        /\ IsSet(XYZ_res)
        /\ \A axis \in 1 .. 3 : PositiveFinite(Val(XYZ_res)[axis])

C12_PaddedToConfiguredSize ==
    (call.op = "make_MTF" /\ raised = "none") =>
        /\ Val(MTF_noiseless).n = Val(OTF_res)
        /\ Val(MTF_poisson).n = Val(OTF_res)
        /\ Val(MTF_readout).n = Val(OTF_res)
        /\ Val(PSF_poisson).n = Val(camera).res
        /\ Val(PSF_readout).n = Val(camera).res
        /\ PSF_readout = eff_PSF

----------------------------------------------------------------------------
(* field_tracing_reverse, followed at one pixel of the grid (every array   *)
(* operation of the trace is element-wise).                                *)
(*                                                                         *)
(* A polar angle in [0, pi/2] is represented by the exact square of its    *)
(* sine, a rational; NaN is the empty tuple.  The azimuth, the apodization *)
(* and the matrices are followed as "finite" or "nan".                     *)

\* Longest lens list that is traced.
MaxTraceLenses == 3

NaN == <<>>

IsNaN(a) == a = <<>>

\* np.linspace(-M, M, res)[i], M = res // 2.
Coord(res, i) ==
    LET M == res \div 2
    IN  IF res = 1 THEN RInt(-M) ELSE R(2 * M * i - M * (res - 1), res - 1)

\* RR**2 at pixel <<row, col>>: xx is the column coordinate, yy the row's.
RR2(res, px) ==
    LET x == Coord(res, px[2])
        y == Coord(res, px[1])
    IN  RAdd(RMul(x, x), RMul(y, y))

\* np.arcsin of a non-negative argument given by its square: NaN above 1.
ArcsinSq(x2) == IF IsNaN(x2) \/ RLess(RInt(1), x2) THEN NaN ELSE x2

\* sin**2 of tmp_RI * sin(theta) / RI (Snell's law across the two indices).
SnellSq(tRI, RI, s2) ==
    IF IsNaN(s2) THEN NaN ELSE RMul(RMul(RDiv(tRI, RI), RDiv(tRI, RI)), s2)

\* lens.theta[lens.theta > th_max] = NaN, th_max = arcsin(NA / RI); a NaN
\* th_max (NA > RI) compares False everywhere.
Invalidate(a, lens) ==
    LET q == RDiv(lens.NA, lens.RI)
    IN  IF ~IsNaN(a) /\ RLeq(q, RInt(1)) /\ RLess(RMul(q, q), a) THEN NaN ELSE a

PhiNaN(phi) == phi = "nan"

\* A Jones matrix built from angle values (other_functions: R_z, R_y,
\* L_refraction, Fresnel): not-a-number where an argument is.  args tells
\* of each argument whether it is NaN.
Jones(name, args) ==
    [m |-> name, nan |-> \E k \in DOMAIN args : args[k]]

\* other_functions.multidot: the per-pixel product of the chain.
multidot(jm) ==
    IF \E k \in DOMAIN jm : jm[k].nan THEN "nan" ELSE "finite"

\* apodization *= (or /=) np.sqrt(lens.RI * np.cos(theta))
ApodStep(apod, theta) ==
    IF apod = "nan" \/ IsNaN(theta) THEN "nan" ELSE "finite"

\* rotation_direction as the setup loop of lines 241-244 leaves it (numpy 1
\* promotes the uint8 array times -1 to a signed array of -1), indexed
\* by physical lens position k = 0 .. n - 1: entry n - i holds
\* -1 * (-1) ** ((i + 1) // 2 + 1).
rotation_direction(n) ==
    [k \in 0 .. n - 1 |->
        LET i == n - k
        IN  IF (((i + 1) \div 2) + 1) % 2 = 0 THEN -1 ELSE 1]

\* arctan2 of the rotated wavevector: NaN where the incoming angles are.
RotatedPhi(theta, phi) == IF IsNaN(theta) \/ phi = "nan" THEN "nan" ELSE "finite"

\* The polar angle of the rotated wavevector kf = R_x . ki (lines 297-300 and
\* 325-328): NaN where the incoming angles are NaN; otherwise `out`, the
\* angle the 3-D rotation yields there (NaN where kf[2] < 0).
RotatedTheta(theta, phi, out) ==
    IF IsNaN(theta) \/ phi = "nan" THEN NaN ELSE out

\* Step i = 0 (lines 258-265): the tracing is seeded at the last lens.
SeedStep(lens, res, px) ==
    LET q  == RDiv(lens.NA, RMul(RInt(res \div 2), lens.RI))
        th == ArcsinSq(RMul(RMul(q, q), RR2(res, px)))
    IN  [theta |-> th, phi |-> "finite", case |-> 0, mode |-> "seed",
         jm |-> <<Jones("inv_R_z", <<FALSE>>),
                  Jones("L_refraction", <<IsNaN(th)>>)>>]

\* A collimating step (lines 267-273); tl, tth, tph are tmp_lens and its
\* angle maps.
CollimatingStep(lens, tl, tth, tph) ==
    LET g  == RDiv(RMul(lens.NA, tl.RI), RMul(lens.RI, tl.NA))
        th == ArcsinSq(IF IsNaN(tth) THEN NaN ELSE RMul(RMul(g, g), tth))
    IN  [theta |-> th, phi |-> tph, case |-> 0, mode |-> "collimating",
         jm |-> <<Jones("L_refraction", <<IsNaN(th)>>)>>]

\* Focusing, case 1 (lines 292-312): the current lens is tilted.
FocusingCase1(lens, tl, tth, tph, out) ==
    LET phi   == RotatedPhi(tth, tph)
        theta == RotatedTheta(tth, tph, out)
        th    == ArcsinSq(SnellSq(tl.RI, lens.RI, theta))
    IN  [theta |-> th, phi |-> phi, case |-> 1, mode |-> "focusing",
         jm |-> <<Jones("R_z", <<PhiNaN(tph)>>),
                  Jones("R_x", <<FALSE>>),
                  Jones("inv_R_z", <<PhiNaN(phi)>>),
                  Jones("R_y", <<IsNaN(theta)>>),
                  Jones("Fresnel", <<IsNaN(th), IsNaN(theta)>>),
                  Jones("R_y", <<IsNaN(th)>>),
                  Jones("L_refraction", <<IsNaN(th)>>)>>]

\* Focusing, case 2 (lines 314-334): the previous lens is tilted.
FocusingCase2(lens, tl, tth, tph, out) ==
    LET theta == ArcsinSq(SnellSq(tl.RI, lens.RI, tth))
        phi   == RotatedPhi(theta, tph)
        th    == RotatedTheta(theta, tph, out)
    IN  [theta |-> th, phi |-> phi, case |-> 2, mode |-> "focusing",
         jm |-> <<Jones("R_y", <<IsNaN(tth)>>),
                  Jones("Fresnel", <<IsNaN(theta), IsNaN(tth)>>),
                  Jones("R_y", <<IsNaN(theta)>>),
                  Jones("R_z", <<PhiNaN(tph)>>),
                  Jones("R_x", <<FALSE>>),
                  Jones("inv_R_z", <<PhiNaN(phi)>>),
                  Jones("L_refraction", <<IsNaN(th)>>)>>]

\* Focusing, case 3 (lines 336-342): neither lens is tilted.
FocusingCase3(lens, tl, tth, tph) ==
    LET th == ArcsinSq(SnellSq(tl.RI, lens.RI, tth))
    IN  [theta |-> th, phi |-> tph, case |-> 3, mode |-> "focusing",
         jm |-> <<Jones("R_y", <<IsNaN(tth)>>),
                  Jones("Fresnel", <<IsNaN(th), IsNaN(tth)>>),
                  Jones("R_y", <<IsNaN(th)>>),
                  Jones("L_refraction", <<IsNaN(th)>>)>>]

\* The branches with the tilt of the previous lens tested before the tilt
\* of the current one.
StepAnglesPreviousTiltFirst(lens, tl, tth, tph, res, px, i, out) ==
    IF i = 0 THEN SeedStep(lens, res, px)
    ELSE IF (i + 1) % 2 = 0 THEN CollimatingStep(lens, tl, tth, tph)
    ELSE IF tl.rot # 0 THEN FocusingCase2(lens, tl, tth, tph, out)
    ELSE IF lens.rot # 0 THEN FocusingCase1(lens, tl, tth, tph, out)
    ELSE FocusingCase3(lens, tl, tth, tph)

\* The branch of lines 258-342 taken at reverse step i on lens `lens`.
StepAngles(lens, tl, tth, tph, res, px, i, out) ==
    IF i = 0 THEN SeedStep(lens, res, px)
    ELSE IF (i + 1) % 2 = 0 THEN CollimatingStep(lens, tl, tth, tph)
    ELSE IF lens.rot # 0 THEN FocusingCase1(lens, tl, tth, tph, out)
    ELSE IF tl.rot # 0 THEN FocusingCase2(lens, tl, tth, tph, out)
    ELSE FocusingCase3(lens, tl, tth, tph)

\* Lines 344-350: the apodization update, the invalidation of the stored
\* angle map, and the step's entry in the log (k is the physical position).
StepEnd(st, k, lens, dir, new) ==
    [angles |-> [st.angles EXCEPT ![k] =
                    [traced |-> new.theta,
                     theta  |-> Invalidate(new.theta, lens),
                     phi    |-> new.phi]],
     jm     |-> st.jm \o new.jm,
     apod   |-> ApodStep(st.apod, new.theta),
     steps  |-> Append(st.steps, [lens |-> k, mode |-> new.mode,
                                  case |-> new.case, dir |-> dir])]

\* The lens of the previous step (tmp_lens) by physical position; at step 0
\* there is none and the seed branch does not read it.
TmpIndex(n, i) == IF i = 0 THEN n - 1 ELSE n - i

\* One pass of the loop of lines 253-350.  st holds the angle maps written
\* so far (by physical position, 0-based), the matrix chain, the
\* apodization and the step log; i is the reverse step, rot the angles the
\* 3-D rotations yield (one per focusing step).
TraceStep(st, ls, res, px, i, rot) ==
    StepEnd(st, Len(ls) - 1 - i, ls[Len(ls) - i],
            rotation_direction(Len(ls))[i],
            StepAngles(ls[Len(ls) - i],
                       ls[TmpIndex(Len(ls), i) + 1],
                       st.angles[TmpIndex(Len(ls), i)].theta,
                       st.angles[TmpIndex(Len(ls), i)].phi,
                       res, px, i,
                       IF i >= 2 /\ i % 2 = 0 THEN rot[i \div 2] ELSE NaN))

RECURSIVE TraceLoop(_, _, _, _, _, _)
TraceLoop(st, ls, res, px, i, rot) ==
    IF i = Len(ls) THEN st
    ELSE TraceLoop(TraceStep(st, ls, res, px, i, rot), ls, res, px, i + 1, rot)

NoAngles == [traced |-> NaN, theta |-> NaN, phi |-> "unset"]

\* Line 356 and the multidot of line 357, and the attributes left behind.
TraceEnd(done, n) ==
    [angles |-> [j \in 1 .. n |-> done.angles[j - 1]],
     jones_mat |-> Append(done.jm, Jones("R_z", <<PhiNaN(done.angles[0].phi)>>)),
     transform |-> multidot(Append(done.jm,
                                   Jones("R_z", <<PhiNaN(done.angles[0].phi)>>))),
     apodization |-> done.apod,
     steps |-> done.steps,
     raised |-> "none"]

\* Microscope.field_tracing_reverse at pixel px: the attributes it leaves
\* and the exception.  `old` holds the attributes as they were.
field_tracing_reverse(old, ls, cam, px, rot) ==
    IF ~IsSet(cam) THEN [old EXCEPT !.raised = "AttributeError"]
    ELSE IF ls = <<>> THEN [old EXCEPT !.raised = "IndexError"]
    ELSE IF Val(cam).res \div 2 = 0 THEN [old EXCEPT !.raised = "ZeroDivisionError"]
    ELSE TraceEnd(TraceLoop([angles |-> [j \in 0 .. Len(ls) - 1 |-> NoAngles],
                             jm |-> <<>>, apod |-> "finite", steps |-> <<>>],
                            ls, Val(cam).res, px, 0, rot),
                  Len(ls))

----------------------------------------------------------------------------
(* The trace as a state machine: an assembled microscope with a camera, on *)
(* which field_tracing_reverse is called.                                  *)

TraceLensChoices ==
    { Lens(RInt(1), RInt(1), 0),
      Lens(R(1, 2), R(3, 2), 0),
      Lens(R(1, 2), R(3, 2), 40) }

TraceResChoices == {1, 2, 3}

\* Angles a 3-D rotation may yield at a pixel: NaN (kf[2] < 0), or an angle
\* with sin**2 = 0, 1/4 or 1.
RotatedChoices == {NaN, RInt(0), R(1, 4), RInt(1)}

LensLists(choices, maxLen) ==
    UNION { [1 .. n -> choices] : n \in 0 .. maxLen }

InitTrace ==
    /\ MtfIdle
    /\ PsfIdle
    /\ lenses \in LensLists(TraceLensChoices, MaxTraceLenses)
    /\ \E res \in TraceResChoices :
          /\ camera = Some(Camera(res, R(1, 500000), 100, R(7, 5)))
          /\ pixel \in (0 .. res - 1) \X (0 .. res - 1)
    /\ mag = Unset
    /\ alpha = Unset
    /\ axial_mag = Unset
    /\ z_voxel_size = Unset
    /\ scaling = Unset
    /\ FoV = Unset
    /\ raised = "none"
    /\ call = CallRec("add_camera", NoLens, NoArg, PyVal("int", Val(camera).res),
                      lenses, Unset)
    /\ angles = <<>>
    /\ jones_mat = <<>>
    /\ transform = "unset"
    /\ apodization = "unset"
    /\ steps = <<>>

\* The number of focusing steps (even reverse steps i >= 2) of n lenses.
FocusingSteps(n) == IF n = 0 THEN 0 ELSE (n - 1) \div 2

FieldTracingReverse ==
    \E rot \in [1 .. FocusingSteps(Len(lenses)) -> RotatedChoices] :
      \E r \in {field_tracing_reverse(
                    [angles |-> angles, jones_mat |-> jones_mat,
                     transform |-> transform, apodization |-> apodization,
                     steps |-> steps, raised |-> raised],
                    lenses, camera, pixel, rot)} :
        /\ angles' = r.angles
        /\ jones_mat' = r.jones_mat
        /\ transform' = r.transform
        /\ apodization' = r.apodization
        /\ steps' = r.steps
        /\ raised' = r.raised
        /\ call' = CallRec("field_tracing_reverse", NoLens, NoArg, NoArg,
                           lenses, camera)
        /\ UNCHANGED <<cfgVars, mtfVars, pixel, psfVars>>

NextTrace == FieldTracingReverse

SpecTrace == InitTrace /\ [][NextTrace]_vars

\* The pixel lies outside the acceptance cone of `lens`: the polar angle
\* traced there exceeds arcsin(NA/RI), or is already not-a-number.
OutsideCone(a, lens) ==
    \/ IsNaN(a.traced)
    \/ /\ RLeq(lens.NA, lens.RI)
       /\ RLess(RMul(RDiv(lens.NA, lens.RI), RDiv(lens.NA, lens.RI)), a.traced)

Traced == call.op = "field_tracing_reverse" /\ raised = "none"

\* C8: after field_tracing_reverse on a non-empty lens list, a pixel that
\* lies outside the acceptance cone of every lens has a not-a-number
\* apodization and a not-a-number transform.
C8_OutsideEveryConeIsNaN ==
    (Traced /\ \A k \in 1 .. Len(lenses) : OutsideCone(angles[k], lenses[k]))
        => (apodization = "nan" /\ transform = "nan")

\* The kind of reverse step i by its index: the seed, collimating (odd) or
\* focusing (even).
ExpectedMode(i) ==
    IF i = 0 THEN "seed" ELSE IF i % 2 = 1 THEN "collimating" ELSE "focusing"

\* The focusing sub-case of reverse step i on lens list ls (0 where the
\* step does not focus): by the tilt of the lens of step i, ls[n - i], and
\* of the lens of step i - 1, ls[n - i + 1].
ExpectedCase(ls, i) ==
    IF ExpectedMode(i) # "focusing" THEN 0
    ELSE IF ls[Len(ls) - i].rot # 0 THEN 1
    ELSE IF ls[Len(ls) - i + 1].rot # 0 THEN 2
    ELSE 3

\* C11: field_tracing_reverse processes the lenses last to first; step 0 is
\* the seed, odd steps collimate, even steps >= 2 focus, and a focusing
\* step takes case 1 iff its lens is tilted, case 2 iff it is not and the
\* lens of the previous step is, case 3 iff neither is.
C11_StepsClassifiedByIndex ==
    Traced =>
        /\ Len(steps) = Len(lenses)
        /\ \A i \in 0 .. Len(lenses) - 1 :
              /\ steps[i + 1].lens = Len(lenses) - 1 - i
              /\ steps[i + 1].mode = ExpectedMode(i)
              /\ steps[i + 1].case = ExpectedCase(lenses, i)

\* A trace of three lenses whose focusing step took case 2.
C11_Witness ==
    /\ Traced
    /\ Len(lenses) = 3
    /\ steps[3].case = 2
    /\ lenses[1].rot = 0
    /\ lenses[2].rot # 0

\* The period-4 sign pattern -1, -1, +1, +1, ... over the reverse steps.
SignPattern(i) == IF i % 4 \in {0, 1} THEN -1 ELSE 1

\* C13: the rotation-direction sign applied at reverse step i is the sign
\* the setup loop computed for the lens processed at that step,
\* self.lenses[-(i+1)], so over the steps the signs follow the pattern
\* -1, -1, +1, +1, ... whatever the number of lenses.
C13_SignOfProcessedLens ==
    Traced =>
        \A i \in 0 .. Len(lenses) - 1 :
            /\ steps[i + 1].dir =
                  rotation_direction(Len(lenses))[Len(lenses) - 1 - i]
            /\ steps[i + 1].dir = SignPattern(i)

----------------------------------------------------------------------------
(* calculate_PSF *)

\* Largest dipole ensemble.
MaxEnsamble == 2

Ev(op, i, v) == [op |-> op, i |-> i, v |-> v]

Log(s, ev) == [s EXCEPT !.events = Append(@, ev)]

Raise(s, x) == [s EXCEPT !.raised = x]

\* r, logged as ev where it raised nothing.
LogIfDone(r, ev) == IF r.raised # "none" THEN r ELSE Log(r, ev)

\* Lines 469-472: the camera is read and the system is traced.
PsfTrace(s, px, rot) ==
    IF ~IsSet(s.camera) THEN Raise(s, "AttributeError")
    ELSE LogIfDone(field_tracing_reverse(s, s.lenses, s.camera, px, rot) @@ s,
                   Ev("field_tracing_reverse", 0, 0))

\* Line 473, light_sheet (lines 159-221): self.mag is read at line 214 and
\* self.ls_PSF assigned at line 221.
PsfLightSheet(s) ==
    IF s.raised # "none" THEN s
    ELSE IF ~IsSet(s.mag) THEN Raise(s, "AttributeError")
    ELSE Log([s EXCEPT !.ls_PSF = "set"], Ev("light_sheet", 0, 0))

\* Lines 476-504: z_voxel_size, ensamble and alpha are read, self.PSF is
\* zeroed.
PsfSetup(s) ==
    IF s.raised # "none" THEN s
    ELSE IF ~IsSet(s.z_voxel_size) \/ ~IsSet(s.ensamble) \/ ~IsSet(s.alpha)
    THEN Raise(s, "AttributeError")
    ELSE [s EXCEPT !.PSF = Some(0)]

\* Lines 510-513: the sink reports, or the terminal load bar does.
Progress(gui, i, N) ==
    IF gui.present /\ gui.ok[i]
    THEN Ev("setValue", i, (100 * (i + 1)) \div N)
    ELSE Ev("loadbar", i, N)

\* Lines 523-526 bind Ae for the two anisotropy values and for no other.
AeBound(a) == a = RInt(0) \/ a = R(2, 5)

\* Lines 516-539 of iteration i: the excitation weight, the fields and the
\* accumulation into self.PSF.
Accumulate(s, i) ==
    IF ~IsSet(s.anisotropy) THEN Raise(s, "AttributeError")
    ELSE IF ~AeBound(Val(s.anisotropy)) THEN Raise(s, "UnboundLocalError")
    ELSE IF ~IsSet(s.scaling) THEN Raise(s, "AttributeError")
    ELSE Log([s EXCEPT !.PSF = Some(Val(@) + 1)], Ev("accumulate", i, 0))

\* The loop of lines 506-539 from iteration i on.
RECURSIVE PsfLoop(_, _, _)
PsfLoop(s, gui, i) ==
    IF s.raised # "none" \/ i = Val(s.ensamble) THEN s
    ELSE PsfLoop(Accumulate(Log(s, Progress(gui, i, Val(s.ensamble))), i),
                 gui, i + 1)

\* Lines 542-546: the effective PSF (eff, as the diffraction integrals
\* yield it) and the throughput.
PsfFinish(s, eff) ==
    IF s.raised # "none" THEN s
    ELSE [s EXCEPT !.eff_PSF = Some(eff), !.tti = "set"]

\* Line 549
PsfMakeMTF(s, e) ==
    IF s.raised # "none" THEN s
    ELSE LogIfDone(make_MTF(s, s.OTF_res, s.SNR, s.camera, s.eff_PSF, s.mag, e),
                   Ev("make_MTF", 0, 0))

\* Line 550, save_stacks (lines 393-409): the stacks are written to disk.
PsfSave(s) ==
    IF s.raised # "none" THEN s ELSE Log(s, Ev("save_stacks", 0, 0))

\* Line 551
PsfAnalyze(s) ==
    IF s.raised # "none" THEN s
    ELSE analyze(s.XYZ_res, s.MTF_poisson, s.base_freq) @@ s

\* Line 552, FWHM_measurement (lines 435-457): FoV is read, the three
\* profiles are fitted; fit is what curve_fit does.
PsfFWHM(s, fit) ==
    IF s.raised # "none" THEN s
    ELSE IF ~IsSet(s.FoV) THEN Raise(s, "AttributeError")
    ELSE IF fit # "ok" THEN Raise(s, fit)
    ELSE [s EXCEPT !.FWHM = "set"]

\* Microscope.calculate_PSF: the attributes it leaves, the exception and
\* the log of what it did.  s holds the attributes as they were; px is the
\* pixel followed through the trace.
calculate_PSF(s, px, gui, rot, eff, e, fit) ==
    PsfFWHM(
      PsfAnalyze(
        PsfSave(
          PsfMakeMTF(
            PsfFinish(
              PsfLoop(
                PsfSetup(
                  PsfLightSheet(
                    PsfTrace([s EXCEPT !.raised = "none", !.events = <<>>],
                             px, rot))),
                gui, 0),
              eff),
            e))),
      fit)

----------------------------------------------------------------------------
(* The simulation as a state machine, as the script of lines 616-622 runs  *)
(* it: a configured microscope (make_system has assigned the simulation    *)
(* parameters; the specs are calculated or not) on which calculate_PSF is  *)
(* called once.                                                            *)

PsfLensLists ==
    { <<>>,
      <<Lens(RInt(1), RInt(1), 0)>>,
      <<Lens(RInt(1), RInt(1), 0), Lens(R(1, 2), R(3, 2), 0)>> }

PsfCameras == {Unset} \cup {Some(c) : c \in MtfCameras}

\* 0 and 0.4, the two values lines 523-526 know, and 0.2 and 1.
AnisotropyChoices == { RInt(0), R(2, 5), R(1, 5), RInt(1) }

PsfSNRChoices == {0, 1}

\* The progress sinks: none (GUI is None), or one whose setValue works or
\* raises in each iteration.
GuiChoices(N) ==
    { [present |-> FALSE, ok |-> [i \in 0 .. N - 1 |-> FALSE]] }
        \cup { [present |-> TRUE, ok |-> f] : f \in [0 .. N - 1 -> BOOLEAN] }

\* What curve_fit does: it returns, or raises RuntimeError.
FitChoices == {"ok", "RuntimeError"}

\* The edge of the volumes of this camera (2 where there is none).
PsfEdge == IF IsSet(camera) THEN Val(camera).res ELSE 2

\* The edge of the volume make_MTF would pad to.
PsfPaddedEdge ==
    IF IsSet(camera) /\ IsSet(OTF_res) /\ Val(OTF_res) >= Val(camera).res
    THEN PaddedEdge ELSE PsfEdge

InitPSF ==
    /\ lenses \in PsfLensLists
    /\ camera \in PsfCameras
    /\ \E r \in {NoSpecs, calculate_system_specs(lenses, camera, NoSpecs)} :
          /\ mag = r.mag
          /\ alpha = r.alpha
          /\ axial_mag = r.axial_mag
          /\ z_voxel_size = r.z_voxel_size
          /\ scaling = r.scaling
          /\ FoV = r.FoV
    /\ raised = "none"
    /\ call = CallRec("make_system", NoLens, NoArg, NoArg, lenses, camera)
    /\ OTF_res \in {Some(n) : n \in PsfEdge .. MaxOTFRes}
    /\ SNR \in {Some(x) : x \in PsfSNRChoices}
    /\ eff_PSF = Unset
    /\ PSF_poisson = Unset
    /\ PSF_readout = Unset
    /\ MTF_noiseless = Unset
    /\ MTF_poisson = Unset
    /\ MTF_readout = Unset
    /\ base_freq = Unset
    /\ XYZ_res = Unset
    /\ runs = <<>>
    /\ TraceIdle
    /\ anisotropy \in {Some(a) : a \in AnisotropyChoices}
    /\ ensamble \in {Some(N) : N \in 1 .. MaxEnsamble}
    /\ GUI = Unset
    /\ ls_PSF = "unset"
    /\ PSF = Unset
    /\ tti = "unset"
    /\ FWHM = "unset"
    /\ events = <<>>

\* The attributes of the microscope, as a record.
Attrs ==
    [lenses |-> lenses, camera |-> camera, mag |-> mag, alpha |-> alpha,
     axial_mag |-> axial_mag, z_voxel_size |-> z_voxel_size,
     scaling |-> scaling, FoV |-> FoV, OTF_res |-> OTF_res, SNR |-> SNR,
     eff_PSF |-> eff_PSF, PSF_poisson |-> PSF_poisson,
     PSF_readout |-> PSF_readout, MTF_noiseless |-> MTF_noiseless,
     MTF_poisson |-> MTF_poisson, MTF_readout |-> MTF_readout,
     base_freq |-> base_freq, XYZ_res |-> XYZ_res, angles |-> angles,
     jones_mat |-> jones_mat, transform |-> transform,
     apodization |-> apodization, steps |-> steps,
     anisotropy |-> anisotropy, ensamble |-> ensamble, ls_PSF |-> ls_PSF,
     PSF |-> PSF, tti |-> tti, FWHM |-> FWHM, events |-> events,
     raised |-> raised]

MadeMTF(log) == \E k \in DOMAIN log : log[k].op = "make_MTF"

\* A call of calculate_PSF with a sink of guis, and with what the library
\* yields drawn from rots (3-D rotations), effs (diffraction integrals),
\* noises (noise realisations) and fits (curve fits).
PsfCall(guis, rots, effs, noises, fits) ==
    /\ guis # {}
    /\ \E gui \in guis, rot \in rots, eff \in effs, e \in noises, fit \in fits :
         \E r \in {calculate_PSF(Attrs, pixel, gui, rot, eff, e, fit)} :
           /\ GUI' = Some(gui)
           /\ angles' = r.angles
           /\ jones_mat' = r.jones_mat
           /\ transform' = r.transform
           /\ apodization' = r.apodization
           /\ steps' = r.steps
           /\ ls_PSF' = r.ls_PSF
           /\ PSF' = r.PSF
           /\ tti' = r.tti
           /\ eff_PSF' = r.eff_PSF
           /\ PSF_poisson' = r.PSF_poisson
           /\ PSF_readout' = r.PSF_readout
           /\ MTF_noiseless' = r.MTF_noiseless
           /\ MTF_poisson' = r.MTF_poisson
           /\ MTF_readout' = r.MTF_readout
           /\ base_freq' = r.base_freq
           /\ XYZ_res' = r.XYZ_res
           /\ FWHM' = r.FWHM
           /\ events' = r.events
           /\ raised' = r.raised
           /\ runs' = IF MadeMTF(r.events)
                      THEN LastTwo(Append(runs, [SNR |-> Val(SNR),
                                                 MTF_noiseless |-> Val(r.MTF_noiseless)]))
                      ELSE runs
           /\ call' = CallRec("calculate_PSF", NoLens, NoArg, NoArg, lenses, camera)
           /\ UNCHANGED <<cfgVars, OTF_res, SNR, pixel, anisotropy, ensamble>>

CalculatePSF ==
    /\ call.op = "make_system"
    /\ PsfCall(GuiChoices(Val(ensamble)),
               [1 .. FocusingSteps(Len(lenses)) -> RotatedChoices],
               EffChoices(PsfEdge), NoiseChoices(PsfPaddedEdge), FitChoices)

NextPSF == CalculatePSF

SpecPSF == InitPSF /\ [][NextPSF]_vars

\* The system is assembled and its specs are calculated: a camera of at
\* least two pixels, a lens, and the cached scalars.
WellConfigured ==
    /\ IsSet(camera)
    /\ Val(camera).res >= 2
    /\ lenses # <<>>
    /\ IsSet(mag) /\ IsSet(alpha) /\ IsSet(z_voxel_size) /\ IsSet(scaling)

ConfigurationErrors == {"ValueError", "TypeError"}

\* C9: calculate_PSF with an anisotropy other than 0 and 0.4 is rejected as
\* a configuration error before any stage has run and before any result
\* field has been written.
C9_BadAnisotropyRejectedFirst ==
    (call.op = "calculate_PSF" /\ WellConfigured /\ ~AeBound(Val(anisotropy)))
        => (raised \in ConfigurationErrors /\ events = <<>>)

\* The progress reports and accumulations of the log, in order.
LoopEvents(log) ==
    SelectSeq(log, LAMBDA ev : ev.op \in {"setValue", "loadbar", "accumulate"})

\* One report, then one accumulation, for each of N dipoles in order.
ExpectedLoop(gui, N) ==
    [k \in 1 .. 2 * N |->
        IF k % 2 = 1 THEN Progress(gui, (k - 1) \div 2, N)
        ELSE Ev("accumulate", (k - 1) \div 2, 0)]

\* C10: calculate_PSF over N dipoles reports progress once per iteration,
\* in order and before the iteration's accumulation (the sink's value
\* 100*(i+1)//N, or the terminal load bar where the sink is absent or
\* fails), and performs all N accumulations.
C10_ProgressOncePerDipole ==
    (call.op = "calculate_PSF" /\ WellConfigured)
        => LoopEvents(events) = ExpectedLoop(Val(GUI), Val(ensamble))

----------------------------------------------------------------------------
(* A session: the simulation parameters are assigned, the system is        *)
(* assembled by add_lens, add_camera and calculate_system_specs calls in   *)
(* any order, and calculate_PSF is then called.                            *)

InitRun ==
    /\ lenses = <<>>
    /\ camera = Unset
    /\ mag = Unset
    /\ alpha = Unset
    /\ axial_mag = Unset
    /\ z_voxel_size = Unset
    /\ scaling = Unset
    /\ FoV = Unset
    /\ raised = "none"
    /\ call = CallRec("init", NoLens, NoArg, NoArg, <<>>, Unset)
    /\ OTF_res = Some(2)
    /\ SNR = Some(1)
    /\ eff_PSF = Unset
    /\ PSF_poisson = Unset
    /\ PSF_readout = Unset
    /\ MTF_noiseless = Unset
    /\ MTF_poisson = Unset
    /\ MTF_readout = Unset
    /\ base_freq = Unset
    /\ XYZ_res = Unset
    /\ runs = <<>>
    /\ TraceIdle
    /\ anisotropy = Some(RInt(0))
    /\ ensamble = Some(1)
    /\ GUI = Unset
    /\ ls_PSF = "unset"
    /\ PSF = Unset
    /\ tti = "unset"
    /\ FWHM = "unset"
    /\ events = <<>>

\* The assembly calls, made before the simulation is started.
Assemble ==
    /\ GUI = Unset
    /\ (AddLens \/ AddCamera \/ CalculateSystemSpecs)

\* system.calculate_PSF(), started on the system as assembled so far: no
\* sink, and the library yielding no tilt, a centre peak, no noise
\* deviation and a converged fit.
StartPSF ==
    /\ GUI = Unset
    /\ PsfCall({[present |-> FALSE, ok |-> [i \in 0 .. Val(ensamble) - 1 |-> FALSE]]},
               {[j \in 1 .. FocusingSteps(Len(lenses)) |-> RInt(0)]},
               {Vol(PsfEdge, [p \in Cube(PsfEdge) |->
                                IF p = <<PsfEdge \div 2, PsfEdge \div 2, PsfEdge \div 2>>
                                THEN 1 ELSE 0])},
               {[p \in Cube(PsfPaddedEdge) |-> 0]},
               {"ok"})

NextRun == Assemble \/ StartPSF

SpecRun == InitRun /\ [][NextRun]_vars

\* C14: whenever calculate_PSF starts (it leaves the lens list, the camera
\* and the cached scalars as they were), mag, alpha, axial_mag,
\* z_voxel_size and scaling exist and are the values calculate_system_specs
\* derives from the current lens list and camera.
C14_ScalarsFreshAtStart ==
    (call.op = "calculate_PSF") =>
        /\ IsSet(mag) /\ IsSet(alpha) /\ IsSet(axial_mag)
        /\ IsSet(z_voxel_size) /\ IsSet(scaling)
        /\ mag = calculate_system_specs(lenses, camera, NoSpecs).mag
        /\ alpha = calculate_system_specs(lenses, camera, NoSpecs).alpha
        /\ axial_mag = calculate_system_specs(lenses, camera, NoSpecs).axial_mag
        /\ z_voxel_size = calculate_system_specs(lenses, camera, NoSpecs).z_voxel_size
        /\ scaling = calculate_system_specs(lenses, camera, NoSpecs).scaling

====
